---- MODULE Spec2Model ----
(***************************************************************************)
(* Tier / limit / cleanup policy of prospectflow:                          *)
(*   - daily_user_data_cleanup and delete_excess_records_for_user (SQL),   *)
(*   - useCurrentSubscription / fetchSubscriptionDetails (React hook).     *)
(* Time is counted in ticks; TicksPerDay ticks make one calendar day, so   *)
(* that startOfDay, ::date and differenceInDays are real conversions.      *)
(* A nullable value is <<>> (null) or <<v>>.                               *)
(***************************************************************************)
EXTENDS Integers, Sequences, FiniteSets, TLC

VARIABLES
    now,            \* the clock, in ticks (new Date() / current_date)
    db,             \* the store: table name -> set of rows
    pc,             \* the statement daily_user_data_cleanup is about to run
    usr,            \* the FOR loop's current row (a user id), or NULL
    cursor,         \* user ids the FOR loop has still to visit
    selected,       \* user ids the FOR query returned in the current run
    run_status,     \* "none", "running", "finished", "failed"
    txn_snapshot,   \* the store when the running transaction began
    runs,           \* number of runs of the job started so far
    error,          \* the error that ended the last run: NULL or <<[at, kind]>>
    call,           \* arguments of a direct delete_excess_records_for_user call
    calls,          \* number of direct calls made so far
    session,        \* the user signed in at the auth service, or NULL
    currentUser,    \* hook state (useState), and the requests in flight
    currentSubscription,
    subscriptionLoading,
    effectiveTierForLimits,
    isInGracePeriod,
    daysLeftInGracePeriod,
    toast,          \* the step just taken raised the error toast
    getUserPending,
    inflight,
    txns,           \* concurrent calls of daily_user_data_cleanup, each one a
                    \* transaction: its position and its uncommitted deletes
    account,        \* AccountSettingsPage: the account deletion dialog
    layout          \* AppLayout: user, isLoadingAuth, pathname

jobVars == <<pc, usr, cursor, selected, run_status, txn_snapshot, runs, error>>
callVars == <<call, calls>>
hookVars == <<session, currentUser, currentSubscription, subscriptionLoading,
              effectiveTierForLimits, isInGracePeriod, daysLeftInGracePeriod,
              toast, getUserPending, inflight>>
otherVars == <<txns, account, layout>>
vars == <<now, db, jobVars, callVars, hookVars, otherVars>>

----------------------------------------------------------------------------
(* Bounds of the model *)

TicksPerDay == 2     \* clock ticks per calendar day
MaxDay == 10         \* the clock stops at the end of this day
ExpiryDay == 1       \* the day the plan_expiry_date of u1's row lies in
MaxExcess == 2       \* rows a table may hold above its free-tier quota
MaxRuns == 2         \* runs of the daily job
MaxCalls == 2        \* direct calls of the Reclaimer
MaxFetches == 2      \* subscription requests in flight at once
MaxInserts == 2      \* rows inserted while the job runs

Users == {"u1", "u2"}
NULL == << >>
Some(v) == <<v>>

----------------------------------------------------------------------------
(* Calendar arithmetic: date-fns on the client, date casts in PostgreSQL *)

\* startOfDay(d): the first tick of d's day
startOfDay(d) == (d \div TicksPerDay) * TicksPerDay

\* Mutant of isFuture: isPast
isFuture_IsPast(d, clock) == d < clock

\* isFuture(d): d is after Date.now()
isFuture(d, clock) == d > clock

\* addDays(d, n)
addDays(d, n) == d + n * TicksPerDay

\* differenceInDays(a, b): full days from b to a, truncated towards zero
differenceInDays(a, b) ==
    IF a >= b THEN (a - b) \div TicksPerDay ELSE 0 - ((b - a) \div TicksPerDay)

\* Math.max
Max(a, b) == IF a >= b THEN a ELSE b

\* ts::date, as a day number
ToDate(ts) == ts \div TicksPerDay

\* current_date
current_date == ToDate(now)

----------------------------------------------------------------------------
(* Subscription State Resolver: fetchSubscriptionDetails, the part after   *)
(* the store has answered                                                  *)

GRACE_PERIOD_DAYS == 7

\* Mutant of ResolveSubscription: the grace test without
\* "|| differenceInDays(gracePeriodEndDate, today) === 0"
ResolveSubscription_NoLastDay(data, clock) ==
    LET initial == [resolvedTier |-> "free", gracePeriodActive |-> FALSE,
                    daysLeftGrace |-> NULL]
    IN  IF data = NULL THEN initial
        ELSE LET sub == data[1] IN
             IF sub.tier = "premium" /\ sub.status = "active"
             THEN IF sub.plan_expiry_date # NULL
                     /\ isFuture(startOfDay(sub.plan_expiry_date[1]), clock)
                  THEN [initial EXCEPT !.resolvedTier = "premium"]
                  ELSE IF sub.plan_expiry_date # NULL
                  THEN LET gracePeriodEndDate ==
                               addDays(startOfDay(sub.plan_expiry_date[1]),
                                       GRACE_PERIOD_DAYS)
                           today == startOfDay(clock)
                       IN  IF isFuture(gracePeriodEndDate, clock)
                           THEN [resolvedTier |-> "free",
                                 gracePeriodActive |-> TRUE,
                                 daysLeftGrace |->
                                     Some(Max(0, differenceInDays(
                                                     gracePeriodEndDate, today)))]
                           ELSE initial
                  ELSE initial
             ELSE initial

\* Mutant of ResolveSubscription: the limits stay premium during the grace
\* period (resolvedTier = 'premium' on line 94)
ResolveSubscription_PremiumInGrace(data, clock) ==
    LET initial == [resolvedTier |-> "free", gracePeriodActive |-> FALSE,
                    daysLeftGrace |-> NULL]
    IN  IF data = NULL THEN initial
        ELSE LET sub == data[1] IN
             IF sub.tier = "premium" /\ sub.status = "active"
             THEN IF sub.plan_expiry_date # NULL
                     /\ isFuture(startOfDay(sub.plan_expiry_date[1]), clock)
                  THEN [initial EXCEPT !.resolvedTier = "premium"]
                  ELSE IF sub.plan_expiry_date # NULL
                  THEN LET gracePeriodEndDate ==
                               addDays(startOfDay(sub.plan_expiry_date[1]),
                                       GRACE_PERIOD_DAYS)
                           today == startOfDay(clock)
                       IN  IF isFuture(gracePeriodEndDate, clock)
                              \/ differenceInDays(gracePeriodEndDate, today) = 0
                           THEN [resolvedTier |-> "premium",
                                 gracePeriodActive |-> TRUE,
                                 daysLeftGrace |->
                                     Some(Max(0, differenceInDays(
                                                     gracePeriodEndDate, today)))]
                           ELSE initial
                  ELSE initial
             ELSE initial

\* The values of resolvedTier, gracePeriodActive and daysLeftGrace when the
\* function reaches setEffectiveTierForLimits; data is NULL or <<row>>.
ResolveSubscription(data, clock) ==
    LET initial == [resolvedTier |-> "free", gracePeriodActive |-> FALSE,
                    daysLeftGrace |-> NULL]
    IN  IF data = NULL THEN initial
        ELSE LET sub == data[1] IN
             IF sub.tier = "premium" /\ sub.status = "active"
             THEN IF sub.plan_expiry_date # NULL
                     /\ isFuture(startOfDay(sub.plan_expiry_date[1]), clock)
                  THEN [initial EXCEPT !.resolvedTier = "premium"]
                  ELSE IF sub.plan_expiry_date # NULL
                  THEN LET gracePeriodEndDate ==
                               addDays(startOfDay(sub.plan_expiry_date[1]),
                                       GRACE_PERIOD_DAYS)
                           today == startOfDay(clock)
                       IN  IF isFuture(gracePeriodEndDate, clock)
                              \/ differenceInDays(gracePeriodEndDate, today) = 0
                           THEN [resolvedTier |-> "free",
                                 gracePeriodActive |-> TRUE,
                                 daysLeftGrace |->
                                     Some(Max(0, differenceInDays(
                                                     gracePeriodEndDate, today)))]
                           ELSE initial
                  ELSE initial
             ELSE initial

----------------------------------------------------------------------------
(* The store and the SQL of daily_user_data_cleanup                        *)

free_tier_company_limit == 25
free_tier_contact_limit == 25
free_tier_job_opening_limit == 30
grace_period_days == 7

EntityTables == {"companies", "contacts", "job_openings"}
DependentTables == {"follow_ups", "job_opening_contacts"}
TableNames == {"user_subscriptions"} \cup EntityTables \cup DependentTables

\* WHERE user_id = u
RowsOf(d, table, u) == {r \in d[table] : r.user_id = u}

\* Mutant of SelectedRows: <= current_date
SelectedRows_Inclusive(d, today) ==
    {us \in d["user_subscriptions"] :
        /\ us.tier = "premium"
        /\ us.plan_expiry_date # NULL
        /\ ToDate(us.plan_expiry_date[1]) + grace_period_days <= today}

\* Mutant of SelectedRows: AND us.status = 'active'
SelectedRows_ActiveOnly(d, today) ==
    {us \in d["user_subscriptions"] :
        /\ us.tier = "premium"
        /\ us.status = "active"
        /\ us.plan_expiry_date # NULL
        /\ ToDate(us.plan_expiry_date[1]) + grace_period_days < today}

\* Mutant of SelectedRows: a cutoff one day later,
\* plan_expiry_date::date + grace_period_days + 1 < current_date
SelectedRows_DayLater(d, today) ==
    {us \in d["user_subscriptions"] :
        /\ us.tier = "premium"
        /\ us.plan_expiry_date # NULL
        /\ ToDate(us.plan_expiry_date[1]) + grace_period_days + 1 < today}

\* Mutant of SelectedRows: us.plan_expiry_date IS NULL OR ... in place of
\* us.plan_expiry_date IS NOT NULL AND ...
SelectedRows_NullExpires(d, today) ==
    {us \in d["user_subscriptions"] :
        /\ us.tier = "premium"
        /\ \/ us.plan_expiry_date = NULL
           \/ ToDate(us.plan_expiry_date[1]) + grace_period_days < today}

\* The FOR query: rows of user_subscriptions with tier = 'premium', a non-null
\* plan_expiry_date and plan_expiry_date::date + grace_period_days < current_date
SelectedRows(d, today) ==
    {us \in d["user_subscriptions"] :
        /\ us.tier = "premium"
        /\ us.plan_expiry_date # NULL
        /\ ToDate(us.plan_expiry_date[1]) + grace_period_days < today}

\* The k-element subsets of S
SubsetsOfSize(S, k) == {T \in SUBSET S : Cardinality(T) = k}

\* Mutant of ExcessIdSets: ORDER BY created_at DESC, which keeps the newest
ExcessIdSets_KeepNewest(rows, limit) ==
    IF Cardinality(rows) <= limit THEN {{}}
    ELSE LET upto(c) == Cardinality({r \in rows : r.created_at >= c})
             before(c) == Cardinality({r \in rows : r.created_at > c})
             cut == CHOOSE c \in {r.created_at : r \in rows} :
                        upto(c) > limit /\ before(c) <= limit
             older == {r \in rows : r.created_at < cut}
             tied == {r \in rows : r.created_at = cut}
         IN  {{r.id : r \in older \cup T} :
                 T \in SubsetsOfSize(tied, upto(cut) - limit)}

\* Mutant of ExcessIdSets: WHERE rn >= limit
ExcessIdSets_FromLimit(rows, limit) ==
    IF Cardinality(rows) < limit THEN {{}}
    ELSE LET upto(c) == Cardinality({r \in rows : r.created_at <= c})
             before(c) == Cardinality({r \in rows : r.created_at < c})
             cut == CHOOSE c \in {r.created_at : r \in rows} :
                        upto(c) > limit - 1 /\ before(c) <= limit - 1
             newer == {r \in rows : r.created_at > cut}
             tied == {r \in rows : r.created_at = cut}
         IN  {{r.id : r \in newer \cup T} :
                 T \in SubsetsOfSize(tied, upto(cut) - (limit - 1))}

\* SELECT id FROM (SELECT id, ROW_NUMBER() OVER (ORDER BY created_at ASC) rn
\* FROM rows) WHERE rn > limit: every id set some row numbering can produce.
\* Rows with equal created_at are numbered in an order SQL leaves open. `cut`
\* is the created_at of row number limit + 1: every newer row has rn > limit,
\* and of the rows created at `cut` as many as are numbered above limit, in
\* any choice.
ExcessIdSets(rows, limit) ==
    IF Cardinality(rows) <= limit THEN {{}}
    ELSE LET upto(c) == Cardinality({r \in rows : r.created_at <= c})
             before(c) == Cardinality({r \in rows : r.created_at < c})
             cut == CHOOSE c \in {r.created_at : r \in rows} :
                        upto(c) > limit /\ before(c) <= limit
             newer == {r \in rows : r.created_at > cut}
             tied == {r \in rows : r.created_at = cut}
         IN  {{r.id : r \in newer \cup T} :
                 T \in SubsetsOfSize(tied, upto(cut) - limit)}

\* follow_ups.job_opening_id and job_opening_contacts.job_opening_id reference
\* job_openings: a delete that would leave a referencing row is refused.
ForeignKeyViolated(d) ==
    \E t \in DependentTables : \E r \in d[t] :
        ~ \E j \in d["job_openings"] : j.id = r.job_opening_id

\* Mutant of delete_excess_records_for_user: WHERE rn > row_count - 1, which
\* deletes only the newest row of a table over the limit
delete_excess_records_for_user_OnlyNewest(d, p_user_id, p_entity_table_name, p_limit) ==
    LET rows == RowsOf(d, p_entity_table_name, p_user_id)
        row_count == Cardinality(rows)
        deleted(X) == [d EXCEPT ![p_entity_table_name] =
                          {r \in @ : ~ (r.id \in X /\ r.user_id = p_user_id)}]
    IN  IF row_count > p_limit
        THEN {IF ForeignKeyViolated(deleted(X))
              THEN [error |-> TRUE, db |-> d]
              ELSE [error |-> FALSE, db |-> deleted(X)] :
                  X \in ExcessIdSets(rows, row_count - 1)}
        ELSE {[error |-> FALSE, db |-> d]}

\* delete_excess_records_for_user(p_user_id, p_entity_table_name, p_limit) run
\* on store d: the outcomes it can have. An outcome is the store afterwards,
\* or an error (the foreign key refused the delete) that leaves d as it was.
delete_excess_records_for_user(d, p_user_id, p_entity_table_name, p_limit) ==
    LET rows == RowsOf(d, p_entity_table_name, p_user_id)
        row_count == Cardinality(rows)
        deleted(X) == [d EXCEPT ![p_entity_table_name] =
                          {r \in @ : ~ (r.id \in X /\ r.user_id = p_user_id)}]
    IN  IF row_count > p_limit
        THEN {IF ForeignKeyViolated(deleted(X))
              THEN [error |-> TRUE, db |-> d]
              ELSE [error |-> FALSE, db |-> deleted(X)] :
                  X \in ExcessIdSets(rows, p_limit)}
        ELSE {[error |-> FALSE, db |-> d]}

\* Mutant of DeleteDependentsOfExcess: WHERE rn > limit + 1, which leaves the
\* dependents of the first excess job opening
DeleteDependentsOfExcess_OffByOne(d, dependent, u) ==
    {[d EXCEPT ![dependent] =
         {r \in @ : ~ (r.job_opening_id \in X /\ r.user_id = u)}] :
        X \in ExcessIdSets(RowsOf(d, "job_openings", u),
                           free_tier_job_opening_limit + 1)}

\* WITH excess_job_openings_to_delete AS (...) DELETE FROM <dependent> WHERE
\* job_opening_id IN (SELECT id FROM excess_job_openings_to_delete)
\* AND user_id = u: the stores it can leave
DeleteDependentsOfExcess(d, dependent, u) ==
    {[d EXCEPT ![dependent] =
         {r \in @ : ~ (r.job_opening_id \in X /\ r.user_id = u)}] :
        X \in ExcessIdSets(RowsOf(d, "job_openings", u),
                           free_tier_job_opening_limit)}

\* Mutant of FreeTierLimit: the job opening limit passed for every table
FreeTierLimit_OneLimit(table) == free_tier_job_opening_limit

\* The limit daily_user_data_cleanup passes for each entity table
FreeTierLimit(table) ==
    CASE table = "job_openings" -> free_tier_job_opening_limit
      [] table = "contacts" -> free_tier_contact_limit
      [] table = "companies" -> free_tier_company_limit

\* Mutant of NextStatement: companies are reclaimed before contacts
NextStatement_CompaniesFirst(stmt) ==
    CASE stmt = "follow_ups" -> "job_opening_contacts"
      [] stmt = "job_opening_contacts" -> "job_openings"
      [] stmt = "job_openings" -> "companies"
      [] stmt = "companies" -> "contacts"
      [] stmt = "contacts" -> "user_subscriptions"
      [] stmt = "user_subscriptions" -> "loop"

\* The statement that follows each statement of the loop body
NextStatement(stmt) ==
    CASE stmt = "follow_ups" -> "job_opening_contacts"
      [] stmt = "job_opening_contacts" -> "job_openings"
      [] stmt = "job_openings" -> "contacts"
      [] stmt = "contacts" -> "companies"
      [] stmt = "companies" -> "user_subscriptions"
      [] stmt = "user_subscriptions" -> "loop"

----------------------------------------------------------------------------
(* daily_user_data_cleanup, statement by statement. The function has no    *)
(* EXCEPTION block and runs in one transaction: an error in any statement  *)
(* ends the function and undoes everything the run has done.               *)

\* Mutant of Abort: the error is noted and the function goes on with the
\* statement after the one that failed
Abort_GoesOn(kind) ==
    /\ db' = db
    /\ pc' = IF pc = "loop" THEN "idle" ELSE NextStatement(pc)
    /\ error' = Some([at |-> pc, kind |-> kind])
    /\ UNCHANGED <<usr, cursor, selected, run_status, txn_snapshot, runs>>

\* Mutant of Abort: the function ends but what it has deleted stays deleted
Abort_NoRollback(kind) ==
    /\ db' = db
    /\ pc' = "idle"
    /\ run_status' = "failed"
    /\ error' = Some([at |-> pc, kind |-> kind])
    /\ UNCHANGED <<usr, cursor, selected, txn_snapshot, runs>>

\* An error is raised: the transaction is rolled back
Abort(kind) ==
    /\ db' = txn_snapshot
    /\ pc' = "idle"
    /\ run_status' = "failed"
    /\ error' = Some([at |-> pc, kind |-> kind])
    /\ UNCHANGED <<usr, cursor, selected, txn_snapshot, runs>>

\* The scheduler calls the function; the FOR query is evaluated
StartRun ==
    /\ pc = "idle"
    /\ runs < MaxRuns
    /\ runs' = runs + 1
    /\ txn_snapshot' = db
    /\ selected' = {us.user_id : us \in SelectedRows(db, current_date)}
    /\ cursor' = selected'
    /\ usr' = NULL
    /\ run_status' = "running"
    /\ pc' = "loop"
    /\ error' = NULL
    /\ UNCHANGED <<now, db, callVars, otherVars, hookVars>>

\* FOR usr IN ... LOOP / END LOOP: the next row, or the end of the function
LoopNext ==
    /\ pc = "loop"
    /\ IF cursor = {}
       THEN /\ pc' = "idle"
            /\ run_status' = "finished"
            /\ usr' = NULL
            /\ UNCHANGED cursor
       ELSE \E u \in cursor :
                /\ usr' = Some(u)
                /\ cursor' = cursor \ {u}
                /\ pc' = "follow_ups"
                /\ UNCHANGED run_status
    /\ UNCHANGED <<now, db, selected, txn_snapshot, runs, error, callVars, otherVars,
                   hookVars>>

\* DELETE FROM public.follow_ups ... / DELETE FROM public.job_opening_contacts ...
DeleteDependents ==
    /\ pc \in DependentTables
    /\ \E d \in DeleteDependentsOfExcess(db, pc, usr[1]) : db' = d
    /\ pc' = NextStatement(pc)
    /\ UNCHANGED <<now, usr, cursor, selected, run_status, txn_snapshot, runs,
                   error, callVars, otherVars, hookVars>>

\* PERFORM public.delete_excess_records_for_user(usr.user_id, <table>, <limit>)
PerformReclaim ==
    /\ pc \in EntityTables
    /\ \E o \in delete_excess_records_for_user(db, usr[1], pc, FreeTierLimit(pc)) :
           IF o.error
           THEN Abort("foreign_key")
           ELSE /\ db' = o.db
                /\ pc' = NextStatement(pc)
                /\ UNCHANGED <<usr, cursor, selected, run_status, txn_snapshot,
                               runs, error>>
    /\ UNCHANGED <<now, callVars, otherVars, hookVars>>

\* Mutant of DeleteSubscription: the statement deletes no row
DeleteSubscription_KeepsRow ==
    /\ pc = "user_subscriptions"
    /\ pc' = NextStatement(pc)
    /\ UNCHANGED <<now, db, usr, cursor, selected, run_status, txn_snapshot,
                   runs, error, callVars, otherVars, hookVars>>

\* Mutant of DeleteSubscription: DELETE FROM public.user_subscriptions without
\* the WHERE clause
DeleteSubscription_AllUsers ==
    /\ pc = "user_subscriptions"
    /\ db' = [db EXCEPT !["user_subscriptions"] = {}]
    /\ pc' = NextStatement(pc)
    /\ UNCHANGED <<now, usr, cursor, selected, run_status, txn_snapshot, runs,
                   error, callVars, otherVars, hookVars>>

\* DELETE FROM public.user_subscriptions WHERE user_id = usr.user_id
DeleteSubscription ==
    /\ pc = "user_subscriptions"
    /\ db' = [db EXCEPT !["user_subscriptions"] =
                 {us \in @ : us.user_id # usr[1]}]
    /\ pc' = NextStatement(pc)
    /\ UNCHANGED <<now, usr, cursor, selected, run_status, txn_snapshot, runs,
                   error, callVars, otherVars, hookVars>>

\* The store fails the statement the function is running (connection, timeout)
StatementFails ==
    /\ pc # "idle"
    /\ Abort("store")
    /\ UNCHANGED <<now, callVars, otherVars, hookVars>>

NextJob ==
    \/ StartRun
    \/ LoopNext
    \/ DeleteDependents
    \/ PerformReclaim
    \/ DeleteSubscription
    \/ StatementFails

----------------------------------------------------------------------------
(* Two calls of daily_user_data_cleanup at the same time. Each call is a   *)
(* transaction of its own (read committed): a statement reads the          *)
(* committed store without the rows its own transaction has deleted, the   *)
(* deletes of a transaction reach the store when the function returns, and *)
(* a statement that needs a row the other transaction has deleted but not  *)
(* yet committed waits for that transaction to end.                        *)

Txns == {"t1", "t2"}

NoDeletes == [t \in TableNames |-> {}]

IdleTxn == [pc |-> "idle", usr |-> NULL, cursor |-> {}, selected |-> {},
            deleted |-> NoDeletes]

\* The store as a statement of transaction i reads it
View(i) == [t \in TableNames |-> db[t] \ txns[i].deleted[t]]

\* The rows transaction i has deleted and not yet committed (its row locks)
Pending(i) ==
    IF txns[i].pc \in {"idle", "done", "failed"} THEN NoDeletes
    ELSE txns[i].deleted

\* Some of the rows of the table are locked by the transaction other than i
Locked(i, table, rows) ==
    \E j \in Txns \ {i} : rows \cap Pending(j)[table] # {}

\* The function is called: the FOR query is evaluated
TxnStart(i) ==
    /\ txns[i].pc = "idle"
    /\ LET sel == {us.user_id : us \in SelectedRows(View(i), current_date)}
       IN  txns' = [txns EXCEPT ![i] = [@ EXCEPT !.pc = "loop",
                                                 !.selected = sel,
                                                 !.cursor = sel]]
    /\ UNCHANGED <<now, db, jobVars, callVars, hookVars, account, layout>>

\* The next row of the FOR loop, or the function returns and the transaction
\* commits
TxnLoopNext(i) ==
    /\ txns[i].pc = "loop"
    /\ IF txns[i].cursor = {}
       THEN /\ db' = [t \in TableNames |-> db[t] \ txns[i].deleted[t]]
            /\ txns' = [txns EXCEPT ![i].pc = "done", ![i].usr = NULL]
       ELSE /\ \E u \in txns[i].cursor :
                   txns' = [txns EXCEPT ![i] = [@ EXCEPT !.pc = "follow_ups",
                                                         !.usr = Some(u),
                                                         !.cursor = @ \ {u}]]
            /\ UNCHANGED db
    /\ UNCHANGED <<now, jobVars, callVars, hookVars, account, layout>>

\* DELETE FROM public.follow_ups ... / DELETE FROM public.job_opening_contacts ...
TxnDeleteDependents(i) ==
    /\ txns[i].pc \in DependentTables
    /\ LET t == txns[i].pc
           v == View(i)
       IN  \E d \in DeleteDependentsOfExcess(v, t, txns[i].usr[1]) :
               LET targets == v[t] \ d[t]
               IN  /\ ~ Locked(i, t, targets)
                   /\ txns' = [txns EXCEPT ![i] =
                                  [@ EXCEPT !.pc = NextStatement(t),
                                            !.deleted[t] = @ \cup targets]]
    /\ UNCHANGED <<now, db, jobVars, callVars, hookVars, account, layout>>

\* PERFORM public.delete_excess_records_for_user(usr.user_id, <table>, <limit>):
\* the count, the ranking and the delete on the transaction's view; a delete
\* of a job opening that a follow-up or a link still references is refused
\* and ends the function, whose transaction is rolled back
TxnReclaim(i) ==
    /\ txns[i].pc \in EntityTables
    /\ LET t == txns[i].pc
           v == View(i)
           rows == RowsOf(v, t, txns[i].usr[1])
       IN  \E X \in ExcessIdSets(rows, FreeTierLimit(t)) :
               LET targets == {r \in rows : r.id \in X}
                   referencing(dt) ==
                       IF t = "job_openings"
                       THEN {r \in v[dt] : r.job_opening_id \in X}
                       ELSE {}
               IN  /\ ~ Locked(i, t, targets)
                   /\ \A dt \in DependentTables :
                          ~ Locked(i, dt, referencing(dt))
                   /\ IF \E dt \in DependentTables : referencing(dt) # {}
                      THEN txns' = [txns EXCEPT ![i] =
                                       [@ EXCEPT !.pc = "failed",
                                                 !.deleted = NoDeletes]]
                      ELSE txns' = [txns EXCEPT ![i] =
                                       [@ EXCEPT !.pc = NextStatement(t),
                                                 !.deleted[t] = @ \cup targets]]
    /\ UNCHANGED <<now, db, jobVars, callVars, hookVars, account, layout>>

\* DELETE FROM public.user_subscriptions WHERE user_id = usr.user_id
TxnDeleteSubscription(i) ==
    /\ txns[i].pc = "user_subscriptions"
    /\ LET targets == RowsOf(View(i), "user_subscriptions", txns[i].usr[1])
       IN  /\ ~ Locked(i, "user_subscriptions", targets)
           /\ txns' = [txns EXCEPT ![i] =
                          [@ EXCEPT !.pc = NextStatement("user_subscriptions"),
                                    !.deleted["user_subscriptions"] =
                                        @ \cup targets]]
    /\ UNCHANGED <<now, db, jobVars, callVars, hookVars, account, layout>>

TxnNext(i) ==
    \/ TxnStart(i)
    \/ TxnLoopNext(i)
    \/ TxnDeleteDependents(i)
    \/ TxnReclaim(i)
    \/ TxnDeleteSubscription(i)

NextTxns == \E i \in Txns : TxnNext(i)

\* The rows of the table that were not there before the job was called
Inserted(d, table) == d[table] \ txn_snapshot[table]

\* Another session inserts (and commits) a row of an entity table for user u:
\* a fresh id, and a created_at newer than that of every row the table holds
\* or held
InsertRow(u, table) ==
    /\ Cardinality(UNION {Inserted(db, t) : t \in EntityTables}) < MaxInserts
    /\ LET known == db[table] \cup txn_snapshot[table]
           newest == IF known = {} THEN 0
                     ELSE CHOOSE c \in {r.created_at : r \in known} :
                              \A r \in known : r.created_at <= c
           last == Cardinality({r \in known : r.user_id = u})
       IN  db' = [db EXCEPT ![table] =
                     @ \cup {[id |-> <<u, last + 1>>, user_id |-> u,
                              created_at |-> newest + 1]}]
    /\ UNCHANGED <<now, jobVars, callVars, hookVars, otherVars>>

\* One call of the job, and inserts for the users whose rows it cleans up
NextInserts ==
    \/ TxnNext("t1")
    \/ \E u \in {us.user_id : us \in SelectedRows(txn_snapshot, current_date)},
          t \in EntityTables : InsertRow(u, t)

----------------------------------------------------------------------------
(* AccountSettingsPage: the two dialogs and handleConfirmAccountDeletion   *)

DELETE_CONFIRMATION_PHRASE == "DELETE MY ACCOUNT"

tablesToDeleteFrom ==
    <<"follow_ups", "job_opening_contacts", "job_openings", "contacts",
      "companies", "user_settings", "user_subscriptions", "posts", "invoices">>

\* The tables of the list that the cleanup job does not touch; the page's
\* state holds their rows
OtherTables == {"user_settings", "posts", "invoices"}

\* What can be typed into the confirmation field
Inputs == {"", "delete my account", DELETE_CONFIRMATION_PHRASE}

\* The page after mount (the useState defaults of lines 124-130); nobody is
\* signed in yet. tableIndex: 0 when handleConfirmAccountDeletion is not
\* running, i when it is about to delete from tablesToDeleteFrom[i], one past
\* the list when it is about to sign out; closureUser is the currentUser the
\* running handler was called with; toast is the toast of the step just taken
InitAccount ==
    [session |-> NULL,
     currentUser |-> NULL,
     isDeleteStep1Open |-> FALSE,
     isDeleteStep2Open |-> FALSE,
     deleteConfirmationInput |-> "",
     isDeletingAccount |-> FALSE,
     tableIndex |-> 0,
     closureUser |-> NULL,
     toast |-> "none",
     pathname |-> "/settings/account",
     rows |-> [t \in OtherTables |-> {[user_id |-> u] : u \in Users}]]

----------------------------------------------------------------------------
(* AppLayout: what it renders and where it redirects                       *)

PUBLIC_PATHS == {"/landing", "/auth"}

\* The paths a page is visited on
Paths == PUBLIC_PATHS \cup {"/", "/contacts"}

\* AppLayout after its first render and its effects on /landing, with nobody
\* signed in. session is what supabase.auth holds; getSession holds, for each
\* getSession() call not yet answered, the isLoadingAuth and the pathname its
\* callback closes over; pushed is the router.push under way, if any
InitLayout ==
    [session |-> NULL,
     user |-> NULL,
     isLoadingAuth |-> TRUE,
     pathname |-> "/landing",
     getSession |-> {[isLoadingAuth |-> TRUE, pathname |-> "/landing"]},
     pushed |-> NULL]

----------------------------------------------------------------------------
(* Initial stores                                                          *)

\* n rows of an entity table owned by u, ids <<u, 1>> .. <<u, n>>, created in
\* id order; i \in ties: row i + 1 has the created_at of row i
EntityRowsOf(u, n, ties) ==
    {[id |-> <<u, i>>, user_id |-> u,
      created_at |-> i - Cardinality({j \in ties : j < i})] : i \in 1..n}

\* One dependent row of u for each job opening <<u, i>>, i \in S
DependentRowsOf(u, S) ==
    {[id |-> <<u, i>>, user_id |-> u, job_opening_id |-> <<u, i>>] : i \in S}

SubscriptionRow(u, tier, status, expiry) ==
    [user_id |-> u, tier |-> tier, status |-> status,
     plan_expiry_date |-> expiry]

\* What a user owns: job openings up to MaxExcess over quota, timestamps tied
\* around rank free_tier_job_opening_limit, a follow-up and a link on the
\* first job opening, a follow-up or a follow-up and a link on any of the two
\* rows around the limit, companies under, at or over quota, contacts one
\* under or one over it.
\*   sub: "lapsed" (premium, grace ended), "grace" (premium, last grace day),
\*        "none" (no subscription row)
Shapes(subs) ==
    LET L == free_tier_job_opening_limit
        around(e) == {L, L + 1} \cap (1..(L - 1 + e))
        all == UNION {
          {[sub |-> sb, e |-> e, ties |-> T, fu |-> F \cup {1}, jc |-> K \cup {1}] :
              sb \in subs,
              T \in SUBSET (L..(L - 2 + e)),
              F \in SUBSET around(e),
              K \in SUBSET around(e)} :
          e \in 0..(MaxExcess + 1)}
    IN  {s \in all : s.jc \subseteq s.fu}

TableOf(u, shape, table, clock) ==
    CASE table = "job_openings" ->
            EntityRowsOf(u, free_tier_job_opening_limit - 1 + shape.e, shape.ties)
      [] table = "companies" ->
            EntityRowsOf(u, free_tier_company_limit - 1 + shape.e, {})
      [] table = "contacts" ->
            EntityRowsOf(u, free_tier_contact_limit + 1 - 2 * (shape.e % 2), {})
      [] table = "follow_ups" -> DependentRowsOf(u, shape.fu)
      [] table = "job_opening_contacts" -> DependentRowsOf(u, shape.jc)
      [] table = "user_subscriptions" ->
            CASE shape.sub = "lapsed" ->
                    {SubscriptionRow(u, "premium", "active", Some(0))}
              [] shape.sub = "grace" ->
                    {SubscriptionRow(u, "premium", "active",
                         Some(addDays(clock, 0 - grace_period_days)))}
              [] shape.sub = "none" -> {}

StoreOf(shapes, clock) ==
    [t \in TableNames |->
        UNION {TableOf(u, shapes[u], t, clock) : u \in Users}]

\* The job and the direct-call bookkeeping before anything ran
InitJob ==
    /\ pc = "idle"
    /\ usr = NULL
    /\ cursor = {}
    /\ selected = {}
    /\ run_status = "none"
    /\ txn_snapshot = db
    /\ runs = 0
    /\ error = NULL
    /\ call = NULL
    /\ calls = 0
    /\ txns = [i \in Txns |-> IdleTxn]

\* The hook after mount: the useState defaults, then the effect of lines
\* 132-142 with currentUser = null; nobody is signed in and getUser() has not
\* answered yet
InitHookState ==
    /\ session = NULL
    /\ currentUser = NULL
    /\ currentSubscription = NULL
    /\ subscriptionLoading = FALSE
    /\ effectiveTierForLimits = "free"
    /\ isInGracePeriod = FALSE
    /\ daysLeftInGracePeriod = NULL
    /\ toast = FALSE
    /\ getUserPending = TRUE
    /\ inflight = {}
    /\ account = InitAccount
    /\ layout = InitLayout

\* Stores with rows: u1 lapsed with a shape of shapes1, u2 with a subscription
\* among subs2 and one row over quota in every table, its follow-ups and links
\* on the first job opening and on the two around the limit
InitStore(shapes1, subs2) ==
    /\ now = MaxDay * TicksPerDay
    /\ \E s1 \in shapes1 :
       \E s2 \in {s \in Shapes(subs2) :
                     /\ s.e = 2 /\ s.ties = {} /\ s.fu = s.jc
                     /\ s.fu = {1, free_tier_job_opening_limit,
                                free_tier_job_opening_limit + 1}} :
           db = StoreOf([u \in Users |-> IF u = "u1" THEN s1 ELSE s2], now)
    /\ InitJob
    /\ InitHookState

InitData == InitStore(Shapes({"lapsed"}), {"lapsed", "grace", "none"})

Spec == InitData /\ [][NextJob]_vars

----------------------------------------------------------------------------
(* A direct call of the Reclaimer (SELECT delete_excess_records_for_user)  *)

\* The limits a direct call is made with
CallLimits == {0, free_tier_contact_limit, free_tier_job_opening_limit}

\* The call recorded in `call` had these arguments and returned
ReturnedFrom(p_user_id, p_entity_table_name, p_limit) ==
    /\ call # NULL
    /\ ~ call[1].error
    /\ call[1].p_user_id = p_user_id
    /\ call[1].p_entity_table_name = p_entity_table_name
    /\ call[1].p_limit = p_limit

\* `call` records the arguments, the store before the call, whether the call
\* raised, and whether it repeats the call before it, which returned
CallReclaimer(p_user_id, p_entity_table_name, p_limit) ==
    /\ pc = "idle"
    /\ calls < MaxCalls
    /\ calls' = calls + 1
    /\ \E o \in delete_excess_records_for_user(db, p_user_id,
                                               p_entity_table_name, p_limit) :
           /\ db' = o.db
           /\ call' = Some([p_user_id |-> p_user_id,
                            p_entity_table_name |-> p_entity_table_name,
                            p_limit |-> p_limit,
                            error |-> o.error,
                            before |-> db,
                            repeats |-> ReturnedFrom(p_user_id,
                                            p_entity_table_name, p_limit)])
    /\ UNCHANGED <<now, jobVars, hookVars, otherVars>>

NextCall ==
    \E u \in Users, t \in EntityTables, l \in CallLimits : CallReclaimer(u, t, l)

\* Direct calls start from the stores in which every job opening with a
\* follow-up has a link too
InitCalls == InitStore({s \in Shapes({"lapsed"}) : s.jc = s.fu}, {"grace"})

SpecReclaimer == InitCalls /\ [][NextCall]_vars

\* Two concurrent calls of the job: u1's plan has lapsed, u2 is on the last
\* day of the grace period
InitTxns == InitStore(Shapes({"lapsed"}), {"grace"})

SpecTxns == InitTxns /\ [][NextTxns]_vars

\* One call of the job while other sessions insert rows; u1's only follow-up
\* and link are on the first job opening, and the only tie of timestamps is
\* the one across the quota
InitInserts ==
    InitStore({s \in Shapes({"lapsed"}) :
                  /\ s.fu = {1} /\ s.jc = {1}
                  /\ s.ties \subseteq {free_tier_job_opening_limit}},
              {"grace"})

SpecInserts == InitInserts /\ [][NextInserts]_vars

----------------------------------------------------------------------------
(* useCurrentSubscription: the auth listener, getUser(), the effect that   *)
(* calls fetchSubscriptionDetails, and the request to the store            *)

NO_ROWS == "PGRST116"
STORE_ERROR == "XX000"

\* The effect of lines 132-142 for a signed-in user: fetchSubscriptionDetails
\* up to its await (setSubscriptionLoading(true), the request is sent)
SendRequest(u) ==
    /\ subscriptionLoading' = TRUE
    /\ inflight' = inflight \cup {[user_id |-> u, answer |-> NULL]}

\* Mutant of ResetOutputs: without setEffectiveTierForLimits('free')
ResetOutputs_KeepsTier ==
    /\ currentSubscription' = NULL
    /\ UNCHANGED effectiveTierForLimits
    /\ isInGracePeriod' = FALSE
    /\ daysLeftInGracePeriod' = NULL
    /\ subscriptionLoading' = FALSE

\* setCurrentSubscription(null) ... setSubscriptionLoading(false)
ResetOutputs ==
    /\ currentSubscription' = NULL
    /\ effectiveTierForLimits' = "free"
    /\ isInGracePeriod' = FALSE
    /\ daysLeftInGracePeriod' = NULL
    /\ subscriptionLoading' = FALSE

\* onAuthStateChange((event, session) => ...), then the effect on currentUser
AuthStateChange(user) ==
    /\ session' = user
    /\ currentUser' = user
    /\ IF user = NULL
       THEN ResetOutputs /\ UNCHANGED inflight
       ELSE /\ Cardinality(inflight) < MaxFetches
            /\ SendRequest(user[1])
            /\ UNCHANGED <<currentSubscription, effectiveTierForLimits,
                           isInGracePeriod, daysLeftInGracePeriod>>
    /\ toast' = FALSE
    /\ UNCHANGED <<now, db, jobVars, callVars, otherVars, getUserPending>>

\* supabase.auth.getUser().then(...), then the effect on currentUser
GetUserResolves ==
    /\ getUserPending
    /\ getUserPending' = FALSE
    /\ currentUser' = session
    /\ IF session = NULL
       THEN /\ subscriptionLoading' = FALSE
            /\ effectiveTierForLimits' = "free"
            /\ IF currentUser # NULL
               THEN /\ currentSubscription' = NULL
                    /\ isInGracePeriod' = FALSE
                    /\ daysLeftInGracePeriod' = NULL
               ELSE UNCHANGED <<currentSubscription, isInGracePeriod,
                                daysLeftInGracePeriod>>
            /\ UNCHANGED inflight
       ELSE /\ Cardinality(inflight) < MaxFetches
            /\ SendRequest(session[1])
            /\ UNCHANGED <<currentSubscription, effectiveTierForLimits,
                           isInGracePeriod, daysLeftInGracePeriod>>
    /\ toast' = FALSE
    /\ UNCHANGED <<now, db, jobVars, callVars, otherVars, session>>

\* supabase.from('user_subscriptions').select('*').eq('user_id', id).single()
\* answered by the store: the row, or the no-rows error
SingleRow(d, u) ==
    LET rows == RowsOf(d, "user_subscriptions", u)
    IN  IF Cardinality(rows) = 1
        THEN [data |-> Some(CHOOSE r \in rows : TRUE), error |-> NULL]
        ELSE [data |-> NULL, error |-> Some(NO_ROWS)]

StoreAnswers(r) ==
    /\ r \in inflight
    /\ r.answer = NULL
    /\ inflight' = (inflight \ {r})
                       \cup {[r EXCEPT !.answer = Some(SingleRow(db, r.user_id))]}
    /\ toast' = FALSE
    /\ UNCHANGED <<now, db, jobVars, callVars, otherVars, session, currentUser,
                   currentSubscription, subscriptionLoading,
                   effectiveTierForLimits, isInGracePeriod,
                   daysLeftInGracePeriod, getUserPending>>

\* The request fails at the store or on the way
StoreFails(r) ==
    /\ r \in inflight
    /\ r.answer = NULL
    /\ inflight' = (inflight \ {r})
                       \cup {[r EXCEPT !.answer =
                                 Some([data |-> NULL, error |-> Some(STORE_ERROR)])]}
    /\ toast' = FALSE
    /\ UNCHANGED <<now, db, jobVars, callVars, otherVars, session, currentUser,
                   currentSubscription, subscriptionLoading,
                   effectiveTierForLimits, isInGracePeriod,
                   daysLeftInGracePeriod, getUserPending>>

\* Mutant of Throws: if (error) throw error
Throws_AnyError(answer) == answer.error # NULL

\* if (error && error.code !== 'PGRST116') throw error
Throws(answer) == answer.error # NULL /\ answer.error[1] # NO_ROWS

\* fetchSubscriptionDetails after its await: try, catch and finally
FetchCompletes(r) ==
    /\ r \in inflight
    /\ r.answer # NULL
    /\ inflight' = inflight \ {r}
    /\ IF Throws(r.answer[1])
       THEN /\ toast' = TRUE
            /\ ResetOutputs
       ELSE LET data == r.answer[1].data
                res == ResolveSubscription(data, now)
            IN  /\ currentSubscription' = data
                /\ effectiveTierForLimits' = res.resolvedTier
                /\ isInGracePeriod' = res.gracePeriodActive
                /\ daysLeftInGracePeriod' = res.daysLeftGrace
                /\ subscriptionLoading' = FALSE
                /\ toast' = FALSE
    /\ UNCHANGED <<now, db, jobVars, callVars, otherVars, session, currentUser,
                   getUserPending>>

NextHook ==
    \/ \E user \in {NULL} \cup {Some(u) : u \in Users} : AuthStateChange(user)
    \/ GetUserResolves
    \/ \E r \in inflight : StoreAnswers(r)
    \/ \E r \in inflight : StoreFails(r)
    \/ \E r \in inflight : FetchCompletes(r)

\* The clock advances while the job is not running
Tick ==
    /\ pc = "idle"
    /\ now < (MaxDay + 1) * TicksPerDay - 1
    /\ now' = now + 1
    /\ UNCHANGED <<db, jobVars, callVars, otherVars, hookVars>>

----------------------------------------------------------------------------
(* Stores that hold subscriptions only                                     *)

Tiers == {"free", "premium"}
Statuses == {"active", "cancelled"}
ExpiryDates ==
    {NULL} \cup {Some(t) : t \in (ExpiryDay * TicksPerDay)..
                                  ((ExpiryDay + 1) * TicksPerDay - 1)}
Clock == 0..((MaxDay + 1) * TicksPerDay - 1)

\* u1 has any subscription row or none; u2 has the given rows; the other
\* tables are those of `rest`
SubscriptionStores(rows2, rest) ==
    {[t \in TableNames |->
         IF t = "user_subscriptions" THEN rows1 \cup rows2 ELSE rest[t]] :
        rows1 \in {{}} \cup {{SubscriptionRow("u1", tier, status, expiry)} :
                               tier \in Tiers, status \in Statuses,
                               expiry \in ExpiryDates}}

\* The hook at any time of the clock; u2 holds a premium plan that never
\* expires within the clock's range
InitHook ==
    /\ now \in Clock
    /\ db \in SubscriptionStores(
                 {SubscriptionRow("u2", "premium", "active",
                                  Some((MaxDay + 1) * TicksPerDay))},
                 [t \in TableNames |-> {}])
    /\ InitJob
    /\ InitHookState

SpecHook == InitHook /\ [][NextHook]_vars

\* The job from the first tick on; u2 has no row or a premium row, cancelled,
\* that expired on day 0; u1 owns one job opening over quota, with a follow-up
InitPolicy ==
    /\ now = 0
    /\ \E rows2 \in {{}, {SubscriptionRow("u2", "premium", "cancelled", Some(0))}} :
           db \in SubscriptionStores(rows2,
                     [t \in TableNames |->
                         CASE t = "job_openings" ->
                                 EntityRowsOf("u1", free_tier_job_opening_limit + 1, {})
                           [] t = "follow_ups" ->
                                 DependentRowsOf("u1", {free_tier_job_opening_limit + 1})
                           [] OTHER -> {}])
    /\ InitJob
    /\ InitHookState

SpecPolicy == InitPolicy /\ [][NextJob \/ Tick]_vars

----------------------------------------------------------------------------
(* The job called once on every day, by a scheduler that stops calling it  *)
(* after a run that raised; the store fails no statement                   *)

\* The scheduler's call of the day: run number k is the run of day k - 1
DailyStart ==
    /\ pc = "idle"
    /\ run_status # "failed"
    /\ runs = current_date
    /\ runs' = runs + 1
    /\ txn_snapshot' = db
    /\ selected' = {us.user_id : us \in SelectedRows(db, current_date)}
    /\ cursor' = selected'
    /\ usr' = NULL
    /\ run_status' = "running"
    /\ pc' = "loop"
    /\ error' = NULL
    /\ UNCHANGED <<now, db, callVars, otherVars, hookVars>>

\* The clock advances; a day ends only after its run has returned
DayPasses ==
    /\ pc = "idle"
    /\ run_status # "failed"
    /\ now < (MaxDay + 1) * TicksPerDay - 1
    /\ ToDate(now + 1) # current_date => runs = current_date + 1
    /\ now' = now + 1
    /\ UNCHANGED <<db, jobVars, callVars, otherVars, hookVars>>

DailyJobStep ==
    \/ LoopNext
    \/ DeleteDependents
    \/ PerformReclaim
    \/ DeleteSubscription

NextDaily == DailyStart \/ DailyJobStep \/ DayPasses

\* The first tick; u1 has any subscription row or none, and one job opening
\* over quota with a follow-up, its timestamp tied with the one before it or
\* not; u2 has no row or a premium row, cancelled, that expired on day 0
InitDaily ==
    /\ now = 0
    /\ \E rows2 \in {{}, {SubscriptionRow("u2", "premium", "cancelled", Some(0))}},
          ties \in {{}, {free_tier_job_opening_limit}} :
           db \in SubscriptionStores(rows2,
                     [t \in TableNames |->
                         CASE t = "job_openings" ->
                                 EntityRowsOf("u1", free_tier_job_opening_limit + 1,
                                              ties)
                           [] t = "follow_ups" ->
                                 DependentRowsOf("u1", {free_tier_job_opening_limit + 1})
                           [] OTHER -> {}])
    /\ InitJob
    /\ InitHookState

\* The scheduler makes its call, PostgreSQL runs the function's statements,
\* and time passes
SpecDaily ==
    /\ InitDaily
    /\ [][NextDaily]_vars
    /\ WF_vars(DailyStart)
    /\ WF_vars(DailyJobStep)
    /\ WF_vars(DayPasses)

----------------------------------------------------------------------------
(* AccountSettingsPage, step by step                                       *)

\* The rows of a table of tablesToDeleteFrom
TableRows(d, acc, table) ==
    IF table \in OtherTables THEN acc.rows[table] ELSE d[table]

AccountUnchanged == UNCHANGED <<now, jobVars, callVars, hookVars, txns, layout>>

\* onAuthStateChange / getUser().then: setCurrentUser(user)
AccountAuthChange(user) ==
    /\ account.pathname = "/settings/account"
    /\ account' = [account EXCEPT !.session = user, !.currentUser = user,
                                  !.toast = "none"]
    /\ UNCHANGED db
    /\ AccountUnchanged

\* The Delete My Account button: setIsDeleteStep1Open(true)
OpenDeleteStep1 ==
    /\ account.pathname = "/settings/account"
    /\ account.currentUser # NULL
    /\ ~ account.isDeletingAccount
    /\ account' = [account EXCEPT !.isDeleteStep1Open = TRUE, !.toast = "none"]
    /\ UNCHANGED db
    /\ AccountUnchanged

\* Cancel in either dialog
CancelDelete ==
    /\ account.pathname = "/settings/account"
    /\ account.isDeleteStep1Open \/ account.isDeleteStep2Open
    /\ account' = [account EXCEPT !.isDeleteStep1Open = FALSE,
                                  !.isDeleteStep2Open = FALSE,
                                  !.toast = "none"]
    /\ UNCHANGED db
    /\ AccountUnchanged

handleProceedToDeleteStep2 ==
    /\ account.pathname = "/settings/account"
    /\ account.isDeleteStep1Open
    /\ account' = [account EXCEPT !.isDeleteStep1Open = FALSE,
                                  !.isDeleteStep2Open = TRUE,
                                  !.deleteConfirmationInput = "",
                                  !.toast = "none"]
    /\ UNCHANGED db
    /\ AccountUnchanged

\* onChange of the confirmation field
TypeConfirmation(text) ==
    /\ account.pathname = "/settings/account"
    /\ account.isDeleteStep2Open
    /\ account' = [account EXCEPT !.deleteConfirmationInput = text,
                                  !.toast = "none"]
    /\ UNCHANGED db
    /\ AccountUnchanged

\* handleConfirmAccountDeletion up to its first await. The handler is taken
\* as callable whatever the state of the button that calls it (line 636
\* disables the button on a wrong text), so that the handler's own guard
\* decides
handleConfirmAccountDeletion ==
    /\ account.pathname = "/settings/account"
    /\ ~ account.isDeletingAccount
    /\ IF account.currentUser = NULL
          \/ account.deleteConfirmationInput # DELETE_CONFIRMATION_PHRASE
       THEN account' = [account EXCEPT !.toast = "confirmation_failed"]
       ELSE account' = [account EXCEPT !.isDeletingAccount = TRUE,
                                       !.tableIndex = 1,
                                       !.closureUser = account.currentUser,
                                       !.toast = "none"]
    /\ UNCHANGED db
    /\ AccountUnchanged

\* catch and finally of handleConfirmAccountDeletion
DeletionFailed ==
    [account EXCEPT !.toast = "deletion_failed",
                    !.isDeletingAccount = FALSE,
                    !.isDeleteStep2Open = FALSE,
                    !.deleteConfirmationInput = "",
                    !.tableIndex = 0,
                    !.closureUser = NULL]

\* The store without the rows of user u in the table
WithoutRowsOf(d, acc, table, u) ==
    IF table \in OtherTables
    THEN [d |-> d,
          acc |-> [acc EXCEPT !.rows[table] = {r \in @ : r.user_id # u}]]
    ELSE [d |-> [d EXCEPT ![table] = {r \in @ : r.user_id # u}], acc |-> acc]

\* Mutant of DeleteFromTable: an error of the delete is ignored and the loop
\* goes on
DeleteFromTable_IgnoresError ==
    /\ account.pathname = "/settings/account"
    /\ account.tableIndex \in 1..Len(tablesToDeleteFrom)
    /\ \E failed \in BOOLEAN :
           LET table == tablesToDeleteFrom[account.tableIndex]
               after == IF failed THEN [d |-> db, acc |-> account]
                        ELSE WithoutRowsOf(db, account, table, account.closureUser[1])
           IN  /\ db' = after.d
               /\ account' = [after.acc EXCEPT !.tableIndex = @ + 1,
                                               !.toast = "none"]
    /\ AccountUnchanged

\* One turn of the for loop: await supabase.from(tableName).delete()
\* .eq('user_id', currentUser.id), and the throw if it answers with an error
DeleteFromTable ==
    /\ account.pathname = "/settings/account"
    /\ account.tableIndex \in 1..Len(tablesToDeleteFrom)
    /\ \E failed \in BOOLEAN :
           IF failed
           THEN /\ account' = DeletionFailed
                /\ UNCHANGED db
           ELSE LET table == tablesToDeleteFrom[account.tableIndex]
                    after == WithoutRowsOf(db, account, table,
                                           account.closureUser[1])
                IN  /\ db' = after.d
                    /\ account' = [after.acc EXCEPT !.tableIndex = @ + 1,
                                                    !.toast = "none"]
    /\ AccountUnchanged

\* After the loop: await supabase.auth.signOut() (an error is not fatal), the
\* toast, router.push('/landing'), finally
SignOutAndLeave ==
    /\ account.pathname = "/settings/account"
    /\ account.tableIndex = Len(tablesToDeleteFrom) + 1
    /\ \E signOutError \in BOOLEAN :
           account' = [account EXCEPT
                          !.session = IF signOutError THEN @ ELSE NULL,
                          !.currentUser = IF signOutError THEN @ ELSE NULL,
                          !.toast = "account_data_deleted",
                          !.pathname = "/landing",
                          !.isDeletingAccount = FALSE,
                          !.isDeleteStep2Open = FALSE,
                          !.deleteConfirmationInput = "",
                          !.tableIndex = 0,
                          !.closureUser = NULL]
    /\ UNCHANGED db
    /\ AccountUnchanged

NextAccount ==
    \/ \E user \in {NULL} \cup {Some(u) : u \in Users} : AccountAuthChange(user)
    \/ OpenDeleteStep1
    \/ CancelDelete
    \/ handleProceedToDeleteStep2
    \/ \E text \in Inputs : TypeConfirmation(text)
    \/ handleConfirmAccountDeletion
    \/ DeleteFromTable
    \/ SignOutAndLeave

\* u1 with no subscription row or a lapsed one, u2 in its grace period
InitAccountPage ==
    InitStore({s \in Shapes({"lapsed", "none"}) :
                  /\ s.e = 0 /\ s.ties = {}
                  /\ s.fu = {1} /\ s.jc = {1}},
              {"grace"})

SpecAccount == InitAccountPage /\ [][NextAccount]_vars

----------------------------------------------------------------------------
(* AppLayout, step by step                                                 *)

\* Mutant of Render: a signed-in user on a public path sees the page
Render_PublicShowsChildren(user, isLoadingAuth, pathname) ==
    IF isLoadingAuth /\ pathname \notin PUBLIC_PATHS THEN "spinner"
    ELSE IF pathname \in PUBLIC_PATHS THEN "children"
    ELSE IF user = NULL THEN "spinner"
    ELSE "shell"

\* The return statements of lines 173-213 and the one after them: the
\* spinner, the children alone, or the children inside the sidebar shell
Render(user, isLoadingAuth, pathname) ==
    IF isLoadingAuth /\ pathname \notin PUBLIC_PATHS THEN "spinner"
    ELSE IF pathname \in PUBLIC_PATHS
    THEN IF user # NULL /\ isLoadingAuth THEN "spinner"
         ELSE IF user # NULL /\ ~ isLoadingAuth THEN "spinner"
         ELSE "children"
    ELSE IF user = NULL /\ ~ isLoadingAuth THEN "spinner"
    ELSE IF user = NULL /\ isLoadingAuth THEN "spinner"
    ELSE "shell"

\* The effect of lines 139-151: the router.push under way after it has run
RedirectEffect(user, isLoadingAuth, pathname, pushed) ==
    IF isLoadingAuth THEN pushed
    ELSE IF user # NULL /\ pathname \in PUBLIC_PATHS THEN Some("/")
    ELSE IF user = NULL /\ pathname \notin PUBLIC_PATHS THEN Some("/landing")
    ELSE pushed

\* The state after a callback has set user and isLoadingAuth and has pushed
\* or not: the effect of lines 139-151 runs if one of its dependencies changed
Commit(l, user, isLoadingAuth, pushed) ==
    [l EXCEPT !.user = user,
              !.isLoadingAuth = isLoadingAuth,
              !.pushed = IF <<user, isLoadingAuth>> # <<l.user, l.isLoadingAuth>>
                         THEN RedirectEffect(user, isLoadingAuth, l.pathname, pushed)
                         ELSE pushed]

LayoutUnchanged == UNCHANGED <<now, db, jobVars, callVars, hookVars, txns, account>>

AuthEvents == {"SIGNED_IN", "SIGNED_OUT", "TOKEN_REFRESHED"}

\* The onAuthStateChange callback of lines 86-104
LayoutAuthEvent(event, newCurrentUser) ==
    /\ CASE event = "SIGNED_IN" -> newCurrentUser # NULL
         [] event = "SIGNED_OUT" -> newCurrentUser = NULL /\ layout.session # NULL
         [] OTHER -> newCurrentUser = layout.session /\ layout.session # NULL
    /\ LET pushed == IF event = "SIGNED_OUT" /\ layout.pathname \notin PUBLIC_PATHS
                     THEN Some("/landing") ELSE layout.pushed
       IN  layout' = [Commit(layout, newCurrentUser, FALSE, pushed)
                         EXCEPT !.session = newCurrentUser]
    /\ LayoutUnchanged

\* The callback of getSession() of lines 106-123, with the isLoadingAuth and
\* the pathname of the render its effect ran in
LayoutGetSessionResolves(c) ==
    /\ c \in layout.getSession
    /\ LET initialUser == layout.session
           pushed == IF initialUser = NULL /\ ~ c.isLoadingAuth
                        /\ c.pathname \notin PUBLIC_PATHS
                     THEN Some("/landing")
                     ELSE IF initialUser # NULL /\ ~ c.isLoadingAuth
                             /\ c.pathname \in PUBLIC_PATHS
                     THEN Some("/")
                     ELSE layout.pushed
           loading == IF c.isLoadingAuth THEN FALSE ELSE layout.isLoadingAuth
       IN  layout' = [Commit(layout, initialUser, loading, pushed)
                         EXCEPT !.getSession = @ \ {c}]
    /\ LayoutUnchanged

\* The layout on a new pathname: both effects run with the isLoadingAuth of
\* that render, the first one calls setIsLoadingAuth(true) and getSession()
OnPathname(l, pathname) ==
    [l EXCEPT !.pathname = pathname,
              !.pushed = RedirectEffect(l.user, l.isLoadingAuth, pathname, NULL),
              !.isLoadingAuth = TRUE,
              !.getSession = @ \cup {[isLoadingAuth |-> l.isLoadingAuth,
                                       pathname |-> pathname]}]

\* The navigation of a router.push ends
NavigationCompletes ==
    /\ layout.pushed # NULL
    /\ layout' = IF layout.pushed[1] = layout.pathname
                 THEN [layout EXCEPT !.pushed = NULL]
                 ELSE OnPathname(layout, layout.pushed[1])
    /\ LayoutUnchanged

\* A link of the page that is shown is followed
FollowLink(pathname) ==
    /\ layout.pushed = NULL
    /\ pathname # layout.pathname
    /\ Render(layout.user, layout.isLoadingAuth, layout.pathname) # "spinner"
    /\ layout' = OnPathname(layout, pathname)
    /\ LayoutUnchanged

\* The page is loaded anew on a pathname: AppLayout mounts
Reload(pathname) ==
    /\ layout' = [InitLayout EXCEPT
                      !.session = layout.session,
                      !.pathname = pathname,
                      !.getSession = {[isLoadingAuth |-> TRUE,
                                       pathname |-> pathname]}]
    /\ LayoutUnchanged

NextLayout ==
    \/ \E event \in AuthEvents, user \in {NULL} \cup {Some(u) : u \in Users} :
           LayoutAuthEvent(event, user)
    \/ \E c \in layout.getSession : LayoutGetSessionResolves(c)
    \/ NavigationCompletes
    \/ \E pathname \in Paths : FollowLink(pathname)
    \/ \E pathname \in Paths : Reload(pathname)

\* The layout reads no table: the store is empty
InitLayoutPage ==
    /\ now = 0
    /\ db = [t \in TableNames |-> {}]
    /\ InitJob
    /\ InitHookState

SpecLayout == InitLayoutPage /\ [][NextLayout]_vars

----------------------------------------------------------------------------
(* Properties of the Reclaimer and of the Daily Cleanup Job                *)

Min(a, b) == IF a <= b THEN a ELSE b

Count(d, table, u) == Cardinality(RowsOf(d, table, u))

\* The users whose loop body the current run has completed, while the run's
\* transaction stands (it is running or has returned normally)
Processed ==
    IF run_status \in {"running", "finished"}
    THEN (selected \ cursor) \ (IF pc \in {"loop", "idle"} THEN {} ELSE {usr[1]})
    ELSE {}

\* Some rows of u in the table share a created_at
HasTies(d, table, u) ==
    \E r1, r2 \in RowsOf(d, table, u) :
        r1.id # r2.id /\ r1.created_at = r2.created_at

\* C2: after a direct Reclaimer call (u, E, L) that returned, u owns exactly
\* min(L, original count) rows of E, the rows kept are rows that were there,
\* no row kept is newer than a row deleted (the kept rows are ranks 1..L by
\* ascending created_at), and with original count <= L the store is unchanged.
C2_ReclaimerKeepsOldest ==
    (call # NULL /\ ~ call[1].error) =>
        LET c == call[1]
            before == RowsOf(c.before, c.p_entity_table_name, c.p_user_id)
            after == RowsOf(db, c.p_entity_table_name, c.p_user_id)
        IN  /\ after \subseteq before
            /\ Cardinality(after) = Min(c.p_limit, Cardinality(before))
            /\ \A k \in after : \A x \in before \ after :
                   k.created_at <= x.created_at
            /\ Cardinality(before) <= c.p_limit => db = c.before

\* C2 witness: a call that deleted rows of a table holding tied timestamps and
\* kept a positive number of rows
C2_Witness ==
    /\ call # NULL
    /\ ~ call[1].error
    /\ call[1].p_limit > 0
    /\ HasTies(call[1].before, call[1].p_entity_table_name, call[1].p_user_id)
    /\ Count(db, call[1].p_entity_table_name, call[1].p_user_id)
           < Count(call[1].before, call[1].p_entity_table_name,
                   call[1].p_user_id)

\* C3: a user the job has processed has no subscription row and at most
\* 25 companies, 25 contacts and 30 job openings.
C3_ProcessedUserWithinQuota ==
    \A u \in Processed :
        /\ RowsOf(db, "user_subscriptions", u) = {}
        /\ Count(db, "companies", u) <= 25
        /\ Count(db, "contacts", u) <= 25
        /\ Count(db, "job_openings", u) <= 30

\* C3 witness: the run has finished and a processed user was over quota in
\* all three tables when it began
C3_Witness ==
    /\ run_status = "finished"
    /\ \E u \in Processed :
           /\ Count(txn_snapshot, "companies", u) > 25
           /\ Count(txn_snapshot, "contacts", u) > 25
           /\ Count(txn_snapshot, "job_openings", u) > 30

\* C4: when a statement of one user's cleanup fails, every other selected
\* user's cleanup has been carried out and kept at the end of that run.
C4_FailureAffectsOnlyThatUser ==
    (run_status = "failed" /\ error[1].at # "loop") =>
        \A u \in selected \ {usr[1]} :
            /\ RowsOf(db, "user_subscriptions", u) = {}
            /\ \A t \in EntityTables : Count(db, t, u) <= FreeTierLimit(t)

C6_KeepsWhatItShould ==
    \A u \in Processed :
        LET kept == {j.id : j \in RowsOf(db, "job_openings", u)}
        IN  /\ \A t \in DependentTables :
                   RowsOf(db, t, u) =
                       {r \in RowsOf(txn_snapshot, t, u) : r.job_opening_id \in kept}
            /\ \A t \in EntityTables :
                   /\ Count(txn_snapshot, t, u) <= FreeTierLimit(t) =>
                          RowsOf(db, t, u) = RowsOf(txn_snapshot, t, u)
                   /\ Count(db, t, u) =
                          Min(FreeTierLimit(t), Count(txn_snapshot, t, u))
            /\ RowsOf(db, "user_subscriptions", u) = {}

----------------------------------------------------------------------------
(* Properties of the Resolver and of the job's selection                   *)

\* The subscription row of u as the hook's request would receive it
SubscriptionOf(d, u) == SingleRow(d, u).data

\* The Resolver reports premium or an active grace period for u
Protected(d, clock, u) ==
    LET res == ResolveSubscription(SubscriptionOf(d, u), clock)
    IN  res.resolvedTier = "premium" \/ res.gracePeriodActive

\* Whole days from the row's expiry date to the clock's date
DaysSinceExpiry(sub, clock) == ToDate(clock) - ToDate(sub.plan_expiry_date[1])

\* C1: a user for whom the Resolver, on the same row and the same date,
\* reports premium or an active grace period is not in the result of the
\* job's FOR query, and no step of the job removes a row of that user.
C1_JobSparesProtectedUsers ==
    [][\A u \in Users :
          Protected(db, now, u) =>
              /\ runs' # runs => u \notin selected'
              /\ \A t \in TableNames : RowsOf(db, t, u) \subseteq RowsOf(db', t, u)
      ]_vars

\* C1 witness: a run has finished that processed a user while another user, on
\* the last day of the grace period, kept the subscription row and every row
C1_Witness ==
    /\ run_status = "finished"
    /\ selected # {}
    /\ \E v \in Users \ selected :
           /\ ResolveSubscription(SubscriptionOf(db, v), now).daysLeftGrace = Some(0)
           /\ \A t \in TableNames : RowsOf(db, t, v) = RowsOf(txn_snapshot, t, v)
           /\ RowsOf(db, "job_openings", v) # {}

\* C7: the FOR query returns exactly the users whose row has tier premium and
\* an expiry date at least 8 days before the current date, whatever the status.
C7_SelectionRule ==
    [][runs' # runs =>
          selected' =
              {u \in Users :
                  \E us \in RowsOf(db, "user_subscriptions", u) :
                      /\ us.tier = "premium"
                      /\ us.plan_expiry_date # NULL
                      /\ DaysSinceExpiry(us, now) >= 8}
      ]_vars

\* C7 witness: a run selected a cancelled premium row that expired 8 days ago
\* and left out a premium row that expired 7 days ago
C7_Witness ==
    /\ run_status = "running"
    /\ \E u \in selected :
       \E us \in RowsOf(txn_snapshot, "user_subscriptions", u) :
           us.status = "cancelled" /\ DaysSinceExpiry(us, now) = 8
    /\ \E v \in Users \ selected :
       \E us \in RowsOf(txn_snapshot, "user_subscriptions", v) :
           /\ us.tier = "premium"
           /\ us.plan_expiry_date # NULL
           /\ DaysSinceExpiry(us, now) = 7

\* The request r is the one whose answer this step processes
Completes(r) == r.answer # NULL /\ inflight' = inflight \ {r}

ActivePremium(data) ==
    data # NULL /\ data[1].tier = "premium" /\ data[1].status = "active"

\* C8: for a premium, active row that expired k >= 0 days ago the hook reports
\* tier free; for k <= 7 grace active with 7 - k days left; for k >= 8 no grace
\* and no days-left value.
C8_ExpiredPremium ==
    [][\A r \in inflight :
          (/\ Completes(r)
           /\ ~ Throws(r.answer[1])
           /\ ActivePremium(r.answer[1].data)
           /\ r.answer[1].data[1].plan_expiry_date # NULL
           /\ DaysSinceExpiry(r.answer[1].data[1], now) >= 0) =>
              LET k == DaysSinceExpiry(r.answer[1].data[1], now)
              IN  /\ effectiveTierForLimits' = "free"
                  /\ k <= 7 => /\ isInGracePeriod'
                               /\ daysLeftInGracePeriod' = Some(7 - k)
                  /\ k >= 8 => /\ ~ isInGracePeriod'
                               /\ daysLeftInGracePeriod' = NULL
      ]_vars

\* C8 witness: the hook shows the last grace day of a row that expired 7 days
\* ago
C8_Witness ==
    /\ ActivePremium(currentSubscription)
    /\ currentSubscription[1].plan_expiry_date # NULL
    /\ DaysSinceExpiry(currentSubscription[1], now) = 7
    /\ effectiveTierForLimits = "free"
    /\ isInGracePeriod
    /\ daysLeftInGracePeriod = Some(0)

\* C9: for a premium, active row whose expiry date is after today the hook
\* reports tier premium.
C9_FuturePremium ==
    [][\A r \in inflight :
          (/\ Completes(r)
           /\ ~ Throws(r.answer[1])
           /\ ActivePremium(r.answer[1].data)
           /\ r.answer[1].data[1].plan_expiry_date # NULL
           /\ ToDate(r.answer[1].data[1].plan_expiry_date[1]) > ToDate(now)) =>
              effectiveTierForLimits' = "premium"
      ]_vars

\* C9 witness: the hook shows premium for a row of u1 that expires tomorrow
C9_Witness ==
    /\ ActivePremium(currentSubscription)
    /\ currentSubscription[1].user_id = "u1"
    /\ currentSubscription[1].plan_expiry_date # NULL
    /\ DaysSinceExpiry(currentSubscription[1], now) = 0 - 1
    /\ effectiveTierForLimits = "premium"

\* C10: when the store answers with no row (the no-rows error included) or
\* with a row that is not premium and active, the hook reports tier free, no
\* grace period, no days-left value, and raises no error toast.
C10_NoActivePremium ==
    [][\A r \in inflight :
          (/\ Completes(r)
           /\ r.answer[1].error \in {NULL, Some(NO_ROWS)}
           /\ ~ ActivePremium(r.answer[1].data)) =>
              /\ effectiveTierForLimits' = "free"
              /\ ~ isInGracePeriod'
              /\ daysLeftInGracePeriod' = NULL
              /\ ~ toast'
      ]_vars

\* C10 witness: the last request of signed-in u1, who has no subscription
\* row, has just completed without a toast
C10_Witness ==
    /\ currentUser = Some("u1")
    /\ RowsOf(db, "user_subscriptions", "u1") = {}
    /\ ~ getUserPending
    /\ inflight = {}
    /\ ~ subscriptionLoading
    /\ currentSubscription = NULL
    /\ ~ toast

\* C11: when the request for the subscription row fails with a store error
\* (any error but the no-rows error), the hook reports tier free, no grace
\* period, no days-left value, no subscription, and loading false.
C11_StoreErrorFailsClosed ==
    [][\A r \in inflight :
          (/\ Completes(r)
           /\ r.answer[1].error # NULL
           /\ r.answer[1].error[1] # NO_ROWS) =>
              /\ effectiveTierForLimits' = "free"
              /\ ~ isInGracePeriod'
              /\ daysLeftInGracePeriod' = NULL
              /\ currentSubscription' = NULL
              /\ ~ subscriptionLoading'
      ]_vars

\* C11 witness: a request of the signed-in user has just failed with a store
\* error (the catch block raised its toast) and the outputs are closed
C11_Witness ==
    /\ toast
    /\ currentUser # NULL
    /\ effectiveTierForLimits = "free"
    /\ ~ isInGracePeriod
    /\ daysLeftInGracePeriod = NULL
    /\ currentSubscription = NULL
    /\ ~ subscriptionLoading

\* C12: a direct Reclaimer call that repeats, with the same user, table and
\* limit and nothing in between, a call that returned, returns too and leaves
\* the store as the first call left it.
C12_SecondCallDeletesNothing ==
    (call # NULL /\ call[1].repeats) =>
        /\ ~ call[1].error
        /\ db = call[1].before

\* C12 witness: the second of two equal calls on u1's contacts with limit 25
\* has been made; the first had cut the table down to 25 rows (no user starts
\* with exactly 25 contacts)
C12_Witness ==
    /\ call # NULL
    /\ call[1].repeats
    /\ call[1].p_user_id = "u1"
    /\ call[1].p_entity_table_name = "contacts"
    /\ call[1].p_limit = free_tier_contact_limit
    /\ Count(call[1].before, "contacts", "u1") = free_tier_contact_limit
    /\ calls = 2

\* C13: a run of the job never selects a user without a subscription row; a
\* run started on the same date after a run that completed selects nobody, and
\* a run that selected nobody deletes no row of any user.
C13_SecondRunChangesNothing ==
    [][/\ runs' # runs =>
              /\ \A u \in selected' : RowsOf(db, "user_subscriptions", u) # {}
              /\ run_status = "finished" => selected' = {}
       /\ (run_status = "running" /\ selected = {}) => db' = db
      ]_vars

\* C13 witness: the second run has finished after a first run that cut a
\* user's contacts down to 25 and deleted the subscription row; it selected
\* nobody and the store is as that run found it
C13_Witness ==
    /\ runs = 2
    /\ run_status = "finished"
    /\ selected = {}
    /\ db = txn_snapshot
    /\ \E u \in Users :
           /\ RowsOf(db, "user_subscriptions", u) = {}
           /\ Count(db, "contacts", u) = free_tier_contact_limit

\* C14: a statement of the loop body run for user U removes no row of any
\* other user and, unless it raises, leaves every table's rows of every other
\* user as they were; the steps outside the loop body that do not raise leave
\* the store alone; and the rows of a user the run did not select are, at
\* every moment, those the run found.
C14_DeletesOnlyOwnRows ==
    [][/\ pc \notin {"idle", "loop"} =>
              \A v \in Users \ {usr[1]} : \A t \in TableNames :
                  /\ RowsOf(db, t, v) \subseteq RowsOf(db', t, v)
                  /\ run_status' # "failed" =>
                         RowsOf(db', t, v) = RowsOf(db, t, v)
       /\ (pc \in {"idle", "loop"} /\ run_status' # "failed") => db' = db
       /\ \A v \in Users \ selected' : \A t \in TableNames :
              RowsOf(db', t, v) = RowsOf(txn_snapshot', t, v)
      ]_vars

\* C14 witness: both users were selected; the loop body of the second has
\* deleted contacts of that user and is about to delete the subscription row,
\* while the first, processed before, holds 25 contacts and no subscription
C14_Witness ==
    /\ pc = "user_subscriptions"
    /\ selected = Users
    /\ Count(db, "contacts", usr[1]) < Count(txn_snapshot, "contacts", usr[1])
    /\ \E v \in Processed :
           /\ v # usr[1]
           /\ Count(db, "contacts", v) = free_tier_contact_limit
           /\ RowsOf(db, "user_subscriptions", v) = {}

\* C15: a direct Reclaimer call for job_openings returns, leaves the user
\* min(limit, original count) job openings, and afterwards no follow-up and no
\* job-opening-contact link references a job opening that is gone: the call
\* has deleted the dependents of the job openings it deletes.
C15_ReclaimerDeletesDependentsFirst ==
    (call # NULL /\ call[1].p_entity_table_name = "job_openings") =>
        /\ ~ call[1].error
        /\ Count(db, "job_openings", call[1].p_user_id) =
               Min(call[1].p_limit,
                   Count(call[1].before, "job_openings", call[1].p_user_id))
        /\ \A t \in DependentTables : \A r \in db[t] :
               \E j \in db["job_openings"] : j.id = r.job_opening_id

\* C16: the rows a direct Reclaimer call deletes are a function of the store
\* and the arguments: every execution of the call from the store it started
\* in ends as this one did, with the same store, also when rows of the user
\* share a created_at.
C16_ReclaimerIsDeterministic ==
    call # NULL =>
        \A o \in delete_excess_records_for_user(call[1].before,
                      call[1].p_user_id, call[1].p_entity_table_name,
                      call[1].p_limit) :
            o.error = call[1].error /\ o.db = db

\* The Resolver takes the branch "Grace period over" for the row: the plan has
\* expired and the grace period is not active
GraceEnded(sub, clock) ==
    LET res == ResolveSubscription(Some(sub), clock)
    IN  res.resolvedTier = "free" /\ ~ res.gracePeriodActive

\* The premium, active rows with an expiry date
ExpiringPremiumRows(d) ==
    {us \in d["user_subscriptions"] :
        ActivePremium(Some(us)) /\ us.plan_expiry_date # NULL}

\* C17 as stated: for premium, active rows with an expiry date the job
\* selects only rows for which the Resolver reports the grace period as ended,
\* and one day later than the Resolver: on the first day the Resolver reports
\* the grace period as ended the job does not select the row yet.
C17_JobOneDayStricter ==
    \A us \in ExpiringPremiumRows(db) :
        /\ us \in SelectedRows(db, current_date) => GraceEnded(us, now)
        /\ (GraceEnded(us, now) /\ ~ GraceEnded(us, now - TicksPerDay)) =>
               us \notin SelectedRows(db, current_date)

\* C17 amended: for premium, active rows with an expiry date the job's FOR
\* query on a date returns the row exactly when the Resolver, at any time of
\* that date, reports the grace period as ended: both start on the 8th day
\* after the expiry date.
C17_SelectionEqualsGraceEnded ==
    \A us \in ExpiringPremiumRows(db) :
        us \in SelectedRows(db, current_date) <=> GraceEnded(us, now)

\* C17 witness: a run started on the first day the Resolver reports the grace
\* period of u1's premium, active row as ended, and selected u1
C17_Witness ==
    /\ run_status = "running"
    /\ "u1" \in selected
    /\ \E us \in ExpiringPremiumRows(txn_snapshot) :
           /\ us.user_id = "u1"
           /\ GraceEnded(us, now)
           /\ ~ GraceEnded(us, now - TicksPerDay)

\* The six steps of a user's cleanup, by the table each one deletes from
CleanupOrder ==
    <<"follow_ups", "job_opening_contacts", "job_openings", "contacts",
      "companies", "user_subscriptions">>

\* C18: for each selected user the job deletes from follow_ups, then from
\* job_opening_contacts, then reclaims job_openings, contacts and companies,
\* then deletes the subscription row: the loop enters a user at step 1; step i
\* changes no table but its own and, when it has finished, is followed by step
\* i + 1 for the same user (after step 6, by the loop); and the subscription
\* row of the user is there until step 6.
C18_StepsInFixedOrder ==
    [][/\ (pc = "loop" /\ pc' # pc /\ run_status' = "running") =>
              pc' = CleanupOrder[1]
       /\ \A i \in 1..6 :
              (pc = CleanupOrder[i] /\ run_status' = "running") =>
                  /\ pc' = IF i < 6 THEN CleanupOrder[i + 1] ELSE "loop"
                  /\ usr' = usr
                  /\ \A t \in TableNames \ {CleanupOrder[i]} : db'[t] = db[t]
                  /\ i < 6 => RowsOf(db', "user_subscriptions", usr[1]) # {}
                  /\ i = 6 => RowsOf(db', "user_subscriptions", usr[1]) = {}
      ]_vars

\* C18 witness: the run has finished and for a processed user each of the six
\* steps has deleted rows
C18_Witness ==
    /\ run_status = "finished"
    /\ \E u \in Processed : \A i \in 1..6 :
           RowsOf(db, CleanupOrder[i], u) # RowsOf(txn_snapshot, CleanupOrder[i], u)

\* The users the FOR query would return on store d at the clock's date
SelectedUsers(d) == {us.user_id : us \in SelectedRows(d, current_date)}

\* C19: when a statement of a user's loop body raises, the function runs no
\* further statement in that run (it has ended, failed), the user's
\* subscription row is in the store and the FOR query still returns the user;
\* and the run started next selects that user.
C19_FailedUserIsSelectedAgain ==
    [][/\ (error' # NULL /\ error' # error /\ error'[1].at # "loop") =>
              /\ pc' = "idle"
              /\ run_status' = "failed"
              /\ RowsOf(db', "user_subscriptions", usr'[1]) # {}
              /\ usr'[1] \in SelectedUsers(db')
       /\ (run_status = "failed" /\ error[1].at # "loop" /\ runs' # runs) =>
              usr[1] \in selected'
      ]_vars

\* C19 witness: the last statement of a user's loop body, the delete of the
\* subscription row, failed after the five before it had run; the row is in
\* the store and the user would be selected again
C19_Witness ==
    /\ run_status = "failed"
    /\ error[1].at = "user_subscriptions"
    /\ RowsOf(db, "user_subscriptions", usr[1]) # {}
    /\ usr[1] \in SelectedUsers(db)
    /\ Count(db, "contacts", usr[1]) > free_tier_contact_limit

\* Everything user u owns in store d
UserRows(d, u) == [t \in TableNames |-> RowsOf(d, t, u)]

\* The stores in which D's stores can be after the loop body's PERFORM for
\* `table` has returned for u
AfterReclaim(D, u, table) ==
    UNION {{o.db : o \in {x \in delete_excess_records_for_user(
                                   d, u, table, FreeTierLimit(table)) :
                              ~ x.error}} : d \in D}

\* The stores an uninterrupted loop body for u can leave when entered with d
CleanupOutcomes(d, u) ==
    LET s1 == DeleteDependentsOfExcess(d, "follow_ups", u)
        s2 == UNION {DeleteDependentsOfExcess(x, "job_opening_contacts", u) :
                        x \in s1}
        s3 == AfterReclaim(s2, u, "job_openings")
        s4 == AfterReclaim(s3, u, "contacts")
        s5 == AfterReclaim(s4, u, "companies")
    IN  {[x EXCEPT !["user_subscriptions"] = {us \in @ : us.user_id # u}] :
            x \in s5}

\* C20: the run that follows an interrupted run, on the same date, starts
\* from the store the interrupted run started from and selects the same
\* users; and what a run that returns normally leaves a selected user with is
\* what an uninterrupted loop body leaves that user with from the run's
\* starting store, which without tied timestamps is one single outcome. So
\* the user ends as after a single uninterrupted run.
C20_LaterRunSameFinalState ==
    [][/\ (run_status = "failed" /\ runs' # runs) =>
              /\ txn_snapshot' = txn_snapshot
              /\ selected' = selected
       /\ (run_status' = "finished" /\ run_status = "running") =>
              \A u \in selected' :
                  LET outcomes == {UserRows(o, u) :
                                      o \in CleanupOutcomes(txn_snapshot', u)}
                  IN  /\ UserRows(db', u) \in outcomes
                      /\ ~ HasTies(txn_snapshot', "job_openings", u) =>
                             Cardinality(outcomes) = 1
      ]_vars

\* C20 witness: the second run has finished and cleaned up a user; the first
\* run, which had selected the same user, therefore did not complete
C20_Witness ==
    /\ runs = 2
    /\ run_status = "finished"
    /\ \E u \in selected :
           /\ RowsOf(db, "user_subscriptions", u) = {}
           /\ Count(db, "job_openings", u) < Count(txn_snapshot, "job_openings", u)
           /\ RowsOf(db, "follow_ups", u) # RowsOf(txn_snapshot, "follow_ups", u)

----------------------------------------------------------------------------
(* Properties of concurrent calls of the job and of concurrent inserts     *)

\* Both concurrent calls have ended and one of them, which had selected
\* users, has committed
TxnsEnded ==
    /\ \A i \in Txns : txns[i].pc \in {"done", "failed"}
    /\ \E i \in Txns : txns[i].pc = "done" /\ txns[i].selected # {}

\* C21: when two concurrent calls of the job over the same user have ended,
\* the user is left as by a single run: in each entity table min(limit,
\* original count) rows, none of them newer than a deleted one; every
\* follow-up and link of a retained job opening still there; no subscription
\* row.
C21_ConcurrentRunsAsOne ==
    TxnsEnded =>
        \A i \in Txns : \A u \in txns[i].selected :
            /\ \A t \in EntityTables :
                   /\ Count(db, t, u) =
                          Min(FreeTierLimit(t), Count(txn_snapshot, t, u))
                   /\ \A k \in RowsOf(db, t, u) :
                      \A x \in RowsOf(txn_snapshot, t, u) \ RowsOf(db, t, u) :
                          k.created_at <= x.created_at
            /\ \A t \in DependentTables :
                   \A r \in RowsOf(txn_snapshot, t, u) \ RowsOf(db, t, u) :
                       \A j \in RowsOf(db, "job_openings", u) :
                           j.id # r.job_opening_id
            /\ RowsOf(db, "user_subscriptions", u) = {}

\* The rows of u in the table, as they were before the job was called, that
\* every ranking by created_at numbers within the limit: fewer than `limit`
\* other rows of u are as old or older
LimitOldest(table, u) ==
    {r \in RowsOf(txn_snapshot, table, u) :
        Cardinality({x \in RowsOf(txn_snapshot, table, u) \ {r} :
                        x.created_at <= r.created_at}) < FreeTierLimit(table)}

\* C22: while rows with newer timestamps are inserted at any moment of a
\* user's cleanup, a statement that deletes entity rows deletes only rows that
\* rank above the limit in the store as the statement reads it (at least
\* `limit` other rows of the user there are as old or older), and no row among
\* the limit-oldest of the rows that existed before the cleanup is deleted or
\* missing from the store.
C22_InsertsNeverCostOldRows ==
    [][\A t \in EntityTables :
          /\ \A r \in txns'["t1"].deleted[t] \ txns["t1"].deleted[t] :
                 /\ Cardinality({x \in RowsOf(View("t1"), t, r.user_id) \ {r} :
                                    x.created_at <= r.created_at})
                        >= FreeTierLimit(t)
                 /\ r \notin LimitOldest(t, r.user_id)
          /\ db'[t] # db[t] =>
                 \A u \in Users : LimitOldest(t, u) \subseteq db'[t]
      ]_vars

\* C22 witness: the call has returned; it deleted a row inserted during the
\* cleanup, and a row inserted after the table's statement is in the store
C22_Witness ==
    /\ txns["t1"].pc = "done"
    /\ \E t \in EntityTables :
           /\ \E r \in txns["t1"].deleted[t] : r \notin txn_snapshot[t]
           /\ \E r \in Inserted(db, t) : r.user_id \in txns["t1"].selected

\* Premium rows with an expiry date
Expiring(d, u) ==
    {us \in RowsOf(d, "user_subscriptions", u) :
        us.tier = "premium" /\ us.plan_expiry_date # NULL}

\* C23: with one run a day and no failing step, every premium row with an
\* expiry date is deleted in the end, or a run has raised; the row goes in the
\* run of the first day with expiry date + 7 days < current_date, that is on
\* day expiry + 8; a run that has begun ends; and a run takes each
\* selected user from the cursor once and returns only when the cursor is
\* empty and every selected user's subscription row is gone.
C23_DailyRunsDeleteExpired ==
    /\ \A u \in Users :
           (Expiring(db, u) # {}) ~> (Expiring(db, u) = {} \/ run_status = "failed")
    /\ (run_status = "running") ~> (run_status \in {"finished", "failed"})
    /\ [][/\ \A u \in Users : \A us \in Expiring(db, u) \ Expiring(db', u) :
                 /\ current_date = ToDate(us.plan_expiry_date[1])
                                       + grace_period_days + 1
                 /\ pc = "user_subscriptions" /\ usr = Some(u)
          /\ (usr' # usr /\ usr' # NULL) =>
                 /\ usr'[1] \in cursor
                 /\ cursor' = cursor \ {usr'[1]}
                 /\ usr'[1] \in selected
          /\ (run_status = "running" /\ run_status' = "finished") =>
                 /\ cursor = {}
                 /\ \A u \in selected : RowsOf(db', "user_subscriptions", u) = {}
       ]_vars

\* C23 witness: the run of day expiry + 8 has returned and has deleted u1's row
C23_Witness ==
    /\ run_status = "finished"
    /\ selected = {"u1"}
    /\ current_date = ExpiryDay + grace_period_days + 1
    /\ runs = current_date + 1
    /\ RowsOf(db, "user_subscriptions", "u1") = {}
    /\ Expiring(txn_snapshot, "u1") # {}

\* The job openings of u that the run has so far taken a follow-up or a link
\* from
LostDependents(u) ==
    {r.job_opening_id :
        r \in UNION {RowsOf(txn_snapshot, t, u) \ db[t] : t \in DependentTables}}

\* The job openings of u that the run has deleted
DeletedJobOpenings(u) ==
    {j.id : j \in RowsOf(txn_snapshot, "job_openings", u) \ db["job_openings"]}

\* C24: for a user whose loop body has completed, the job openings that lost
\* follow-ups or links in the run are job openings the Reclaimer deleted in
\* that run; this is what the three rankings of lines 25-34, 37-46 and 89-97
\* agreeing comes to in the store.
C24_ThreeRankingsAgree ==
    \A u \in Processed : LostDependents(u) \subseteq DeletedJobOpenings(u)

----------------------------------------------------------------------------
(* Properties of the hook, the account page and the layout                 *)

\* C25: when no request of the hook is under way and getUser() has answered,
\* the outputs belong to the current user: the subscription held is a row of
\* that user, premium or a grace period is reported only if the Resolver
\* reports it for that user's row, and with nobody signed in the subscription
\* is null, the tier free and no grace period is reported.
C25_OutputsAreCurrentUsers ==
    (inflight = {} /\ ~ getUserPending) =>
        IF currentUser = NULL
        THEN /\ currentSubscription = NULL
             /\ effectiveTierForLimits = "free"
             /\ isInGracePeriod = FALSE
             /\ daysLeftInGracePeriod = NULL
        ELSE LET res == ResolveSubscription(SubscriptionOf(db, currentUser[1]), now)
             IN  /\ currentSubscription # NULL =>
                        currentSubscription[1].user_id = currentUser[1]
                 /\ effectiveTierForLimits = "premium" =>
                        res.resolvedTier = "premium"
                 /\ isInGracePeriod => res.gracePeriodActive

\* Premium, active rows without an expiry date
OpenEnded(d) ==
    {us \in d["user_subscriptions"] :
        us.tier = "premium" /\ us.status = "active" /\ us.plan_expiry_date = NULL}

\* C26: a premium, active row without an expiry date resolves to the free
\* tier with no grace period and no days left, is not in the result of the
\* job's FOR query on any date, and no step of the job removes it.
C26_NullExpiryIsFreeAndKept ==
    /\ [](\A us \in OpenEnded(db) :
             /\ ResolveSubscription(Some(us), now) =
                    [resolvedTier |-> "free", gracePeriodActive |-> FALSE,
                     daysLeftGrace |-> NULL]
             /\ us \notin SelectedRows(db, current_date)
             /\ us.user_id \notin selected)
    /\ [][OpenEnded(db) \subseteq OpenEnded(db')]_vars

\* C26 witness: on the last day a run that selected u2 has returned, and u1's
\* row without an expiry date is in the store
C26_Witness ==
    /\ run_status = "finished"
    /\ selected = {"u2"}
    /\ current_date = MaxDay
    /\ \E us \in OpenEnded(db) : us.user_id = "u1"

\* C27: in every state of the hook, and in the Resolver's result for every
\* answer on its way to the hook: a grace period comes with tier free and with
\* a days-left value among 0..7, no grace period comes with no days-left
\* value, and tier premium comes with no grace period.
C27_OutputsAreConsistent ==
    LET Consistent(tier, grace, days) ==
            /\ grace => /\ tier = "free"
                        /\ days # NULL
                        /\ days[1] \in 0..GRACE_PERIOD_DAYS
            /\ ~ grace => days = NULL
            /\ tier = "premium" => ~ grace
    IN  /\ Consistent(effectiveTierForLimits, isInGracePeriod,
                      daysLeftInGracePeriod)
        /\ \A r \in inflight :
               (r.answer # NULL /\ ~ Throws(r.answer[1])) =>
                   LET res == ResolveSubscription(r.answer[1].data, now)
                   IN  Consistent(res.resolvedTier, res.gracePeriodActive,
                                  res.daysLeftGrace)

\* C27 witness: the hook reports the first day of a grace period, seven days
\* left
C27_Witness ==
    /\ inflight = {}
    /\ currentSubscription # NULL
    /\ effectiveTierForLimits = "free"
    /\ isInGracePeriod
    /\ daysLeftInGracePeriod = Some(GRACE_PERIOD_DAYS)

\* The phase the Resolver's result is in: 1 premium, 2 free with a grace
\* period, 3 free without
Phase(res) ==
    IF res.resolvedTier = "premium" THEN 1
    ELSE IF res.gracePeriodActive THEN 2 ELSE 3

\* Premium, active rows with an expiry date
ExpiringActive(d) ==
    {us \in d["user_subscriptions"] :
        us.tier = "premium" /\ us.status = "active" /\ us.plan_expiry_date # NULL}

\* C28: as the clock advances, the Resolver's result for a premium, active row
\* with an expiry date stays the same within a day and moves on by at most one
\* phase at a day's end, never back: premium, then a grace period that starts
\* with 7 days left, loses exactly one day per day and ends after the day with
\* 0 left, then free without grace; and the row is in the result of the job's
\* FOR query exactly on the days of the last phase.
C28_PhasesOnlyMoveForward ==
    [][now' # now =>
          \A us \in ExpiringActive(db) \cap ExpiringActive(db') :
              LET a == ResolveSubscription(Some(us), now)
                  b == ResolveSubscription(Some(us), now')
              IN  /\ Phase(b) \in {Phase(a), Phase(a) + 1}
                  /\ ToDate(now') = ToDate(now) => b = a
                  /\ (Phase(a) = 1 /\ Phase(b) = 2) =>
                         b.daysLeftGrace = Some(GRACE_PERIOD_DAYS)
                  /\ (Phase(a) = 2 /\ Phase(b) = 2 /\ ToDate(now') # ToDate(now)) =>
                         b.daysLeftGrace = Some(a.daysLeftGrace[1] - 1)
                  /\ (Phase(a) = 2 /\ Phase(b) = 3) => a.daysLeftGrace = Some(0)
                  /\ Phase(a) = 3 <=> us \in SelectedRows(db, ToDate(now))
                  /\ Phase(b) = 3 <=> us \in SelectedRows(db', ToDate(now'))
      ]_vars

\* C28 witness: the clock has reached the first day of the last phase of u1's
\* row, which is the first day the FOR query returns it
C28_Witness ==
    /\ now = (ExpiryDay + GRACE_PERIOD_DAYS + 1) * TicksPerDay
    /\ \E us \in ExpiringActive(db) :
           /\ us.user_id = "u1"
           /\ Phase(ResolveSubscription(Some(us), now)) = 3
           /\ Phase(ResolveSubscription(Some(us), now - 1)) = 2
           /\ us \in SelectedRows(db, current_date)
           /\ us \notin SelectedRows(db, current_date - 1)

\* The tables of tablesToDeleteFrom that come before position i
TablesBefore(i) == {tablesToDeleteFrom[j] : j \in 1..(i - 1)}

Position(table) ==
    CHOOSE i \in 1..Len(tablesToDeleteFrom) : tablesToDeleteFrom[i] = table

AllTables == {tablesToDeleteFrom[i] : i \in 1..Len(tablesToDeleteFrom)}

\* C29: the handler starts deleting only with a signed-in user and the typed
\* text equal to the phrase; a step changes at most one table, takes from it
\* exactly the rows of the user the handler was called for, and only when no
\* table before it in the list holds a row of that user; the step in which a
\* delete fails changes no table, signs nobody out and leaves the path as it
\* is, and ends the handler; and the page is left only with no row of the
\* user in any of the nine tables.
C29_AccountDeletion ==
    [][/\ (~ account.isDeletingAccount /\ account'.isDeletingAccount) =>
             /\ account.currentUser # NULL
             /\ account.deleteConfirmationInput = DELETE_CONFIRMATION_PHRASE
             /\ account'.closureUser = account.currentUser
       /\ \A t \in AllTables :
             TableRows(db', account', t) # TableRows(db, account, t) =>
                 /\ account.isDeletingAccount
                 /\ account.closureUser # NULL
                 /\ TableRows(db', account', t) =
                        {r \in TableRows(db, account, t) :
                            r.user_id # account.closureUser[1]}
                 /\ \A t2 \in TablesBefore(Position(t)) :
                        \A r \in TableRows(db, account, t2) :
                            r.user_id # account.closureUser[1]
                 /\ \A t2 \in AllTables \ {t} :
                        TableRows(db', account', t2) = TableRows(db, account, t2)
       /\ account'.toast = "deletion_failed" =>
             /\ \A t \in AllTables :
                    TableRows(db', account', t) = TableRows(db, account, t)
             /\ account'.session = account.session
             /\ account'.pathname = account.pathname
             /\ ~ account'.isDeletingAccount
             /\ account'.tableIndex = 0
       /\ account'.pathname # account.pathname =>
             /\ account.closureUser # NULL
             /\ \A t \in AllTables : \A r \in TableRows(db, account, t) :
                    r.user_id # account.closureUser[1]
      ]_vars

\* C29 witness: the delete from job_openings has just failed for u1: the two
\* tables before it hold no row of u1, job_openings and the tables after it
\* do, and u1 is signed in on the page
C29_Witness ==
    /\ account.toast = "deletion_failed"
    /\ account.session = Some("u1")
    /\ account.pathname = "/settings/account"
    /\ RowsOf(db, "follow_ups", "u1") = {}
    /\ RowsOf(db, "job_opening_contacts", "u1") = {}
    /\ RowsOf(db, "job_openings", "u1") # {}
    /\ RowsOf(txn_snapshot, "follow_ups", "u1") # {}
    /\ \E r \in account.rows["invoices"] : r.user_id = "u1"

\* C30: whatever the user, the loading flag and the path, the children alone
\* are rendered only on a public path with no user and the children in the
\* shell only on another path with a user, and a user on a public path or no
\* user on another path gets the spinner; and in every state with loading
\* finished a user on a public path has a router.push to '/' under way and no
\* user on another path has a router.push to '/landing' under way.
C30_RenderAndRedirect ==
    /\ \A user \in {NULL} \cup {Some(u) : u \in Users}, isLoadingAuth \in BOOLEAN,
          pathname \in Paths :
           LET shown == Render(user, isLoadingAuth, pathname)
               public == pathname \in PUBLIC_PATHS
           IN  /\ shown \in {"spinner", "children", "shell"}
               /\ shown = "children" => public /\ user = NULL
               /\ shown = "shell" => ~ public /\ user # NULL
               /\ (public /\ user # NULL) \/ (~ public /\ user = NULL) =>
                      shown = "spinner"
    /\ Render(layout.user, layout.isLoadingAuth, layout.pathname) = "children"
           => layout.pathname \in PUBLIC_PATHS /\ layout.user = NULL
    /\ Render(layout.user, layout.isLoadingAuth, layout.pathname) = "shell"
           => layout.pathname \notin PUBLIC_PATHS /\ layout.user # NULL
    /\ ~ layout.isLoadingAuth =>
           /\ (layout.user # NULL /\ layout.pathname \in PUBLIC_PATHS) =>
                  layout.pushed = Some("/")
           /\ (layout.user = NULL /\ layout.pathname \notin PUBLIC_PATHS) =>
                  layout.pushed = Some("/landing")

\* C30 witness: loading has finished for a signed-in user on /auth: the
\* spinner is shown and the router.push to '/' is under way
C30_Witness ==
    /\ layout.user # NULL
    /\ ~ layout.isLoadingAuth
    /\ layout.pathname = "/auth"
    /\ layout.getSession = {}
    /\ layout.pushed = Some("/")
    /\ Render(layout.user, layout.isLoadingAuth, layout.pathname) = "spinner"

====
